---- MODULE Spec2Model ----
(***************************************************************************)
(* A model of one pastatime Session (src/main.go): the connection handlers *)
(* (handleSessionWS), the command state machine (Session.handleCommand),   *)
(* the periodic ticker (Session.timerLoop), the broadcaster                *)
(* (Session.broadcastState, Session.sendStateToClient) and the two session *)
(* mutexes clientsMux and stateMux.                                        *)
(*                                                                         *)
(* Every goroutine is a process with a program counter.  A step that       *)
(* starts with Lock() performs the critical section's reads and writes and *)
(* leaves the mutex held; the matching Unlock() is a step of its own, so   *)
(* the holder of each mutex is visible in every state.  sync.Mutex is not  *)
(* reentrant: a Lock() step is enabled only while the mutex is free, also  *)
(* for the goroutine that holds it.                                        *)
(***************************************************************************)
EXTENDS Integers, Sequences, FiniteSets, TLC

\* ---------------------------------------------------------------- bounds

\* Ticks of the wall clock the model lets pass.
MaxTicks == 2
\* Nanoseconds the clock advances per model tick (not a multiple of a
\* millisecond, so that Milliseconds() truncates).
ClockStep == 1500000
\* Laps lapHistory may hold before "next" is no longer offered.
MaxLaps == 3
\* Events of the environment the model lets happen in all: connections
\* accepted, command frames delivered, reads failed, ticks of the clock.
MaxEvents == 4
\* The same, from the state in which three participants are connected.
RoundEvents == 3
\* The same, from the state in which one participant has paused the timer.
PausedEvents == 4
\* Executions of broadcastState and sendStateToClient in progress at once.
MaxBroadcasts == 1
\* Events of the environment from the paused session when sends may be slow.
SendEvents == 3
\* Writer goroutines (line 460) that may be inside WriteMessage on one
\* connection at once.
MaxWriters == 2

\* time.Duration counts nanoseconds; Duration.Milliseconds() divides by 1e6.
NsPerMs == 1000000

\* ------------------------------------------------------------- processes

\* Connection slots: each runs one handleSessionWS at a time.
Conns == {"c1", "c2", "c3"}
\* The session's timerLoop goroutine.
Ticker == "ticker"
\* Goroutines started by "go s.broadcastState()" in handleCommand.
Spawned == {"g1"}
Procs == Conns \cup {Ticker} \cup Spawned
\* Value of a mutex nobody holds.
NoProc == "free"

\* What generateName() may return.
Names == {"A", "B", "C"}
\* The empty identifier.
NoClient == ""
\* The command verbs a frame may carry; "bogus" is any unrecognised verb.
Commands == {"start", "pause", "reset", "next", "bogus"}

VARIABLES
    \* Session fields
    clients,         \* map[string]*Client, as a set of <<id, conn>>
    clientOrder,     \* []string
    activeClientID,
    turnsCompleted,
    isRunning,
    startTime,
    elapsed,
    lastLapTime,
    lastLapClient,
    lapHistory,      \* []Lap
    clientsMux,      \* holder of the membership mutex, or NoProc
    stateMux,        \* holder of the timer mutex, or NoProc
    \* environment
    now,             \* the monotonic clock, in nanoseconds
    \* goroutines
    pc,              \* program counter of every process
    clientID,        \* handleSessionWS's local clientID, per connection
    cmd,             \* the command a handler is processing
    currentClients,  \* local copy of s.clients, per process
    smp,             \* local ms/lapMs/lapClient/history, per process
    writers,         \* conn.WriteMessage calls in progress in goroutines
    \* observation of the reported time
    owed,            \* least time a snapshot may report if time never drops while running
    owedTurn,        \* the same, forgotten at every "next"
    \* what the environment has done so far
    nEvents          \* events of the environment so far

sessionVars == <<clients, clientOrder, activeClientID, turnsCompleted>>
timerVars == <<isRunning, startTime, elapsed, lastLapTime, lastLapClient, lapHistory>>
muxVars == <<clientsMux, stateMux>>
localVars == <<clientID, cmd, currentClients, smp>>
obsVars == <<owed, owedTurn>>
boundVars == <<nEvents>>
vars == <<sessionVars, timerVars, muxVars, now, pc, localVars, writers, obsVars, boundVars>>

\* ---------------------------------------------------------------- helpers

Range(s) == {s[i] : i \in DOMAIN s}

\* Keys of a clients map.
IDs(m) == {e[1] : e \in m}

\* The first index of x in s, or 0 (the loops of lines 276-281 and 346-351).
IndexOf(s, x) ==
    IF x \in Range(s) THEN CHOOSE i \in DOMAIN s : s[i] = x /\ \A j \in 1..(i-1) : s[j] # x
    ELSE 0

\* append(s[:i], s[i+1:]...) at the first occurrence of x (lines 276-281).
RemoveFirst(s, x) ==
    LET i == IndexOf(s, x)
    IN IF i = 0 THEN s
       ELSE [k \in 1..(Len(s) - 1) |-> IF k < i THEN s[k] ELSE s[k + 1]]

\* time.Duration.Milliseconds(): integer division truncating toward zero.
Milliseconds(d) == IF d >= 0 THEN d \div NsPerMs ELSE -((-d) \div NsPerMs)

\* time.Since(t) on the monotonic clock.
Since(t) == now - t

\* total of lines 420-425 and 481-486, for the values read of isRunning, elapsed.
Total(run, el) == IF run THEN el + Since(startTime) ELSE el

\* A Lap (line 326).
Lap(c, d) == [client |-> c, time |-> d, timeMs |-> Milliseconds(d)]

\* The locals before the reads.
NoSample == [run |-> FALSE, ms |-> 0, lapMs |-> 0, lapClient |-> NoClient, history |-> <<>>]

\* The locals ms, lapMs, lapClient, history of lines 426-429 and 487-490,
\* for the values read of isRunning, lastLapTime and lastLapClient; run is
\* the value of isRunning the test of line 420 (481) saw.
Sample(run, lapT, lapC) ==
    [run |-> run, ms |-> Milliseconds(Total(run, elapsed)), lapMs |-> Milliseconds(lapT),
     lapClient |-> lapC, history |-> lapHistory]

\* The message of lines 437-452 and 497-506, for recipient id.
Message(s, cc, id) ==
    [type |-> "update", time |-> s.ms, lapTime |-> s.lapMs,
     lastLapClient |-> s.lapClient, lapHistory |-> s.history,
     activeClient |-> activeClientID, clients |-> IDs(cc), yourId |-> id]

\* ------------------------------------------------------------------ Init

\* handleNewSession, lines 138-155: an empty session whose timerLoop runs.
Init ==
    /\ clients = {}
    /\ clientOrder = <<>>
    /\ activeClientID = NoClient
    /\ turnsCompleted = 0
    /\ isRunning = FALSE
    /\ startTime = 0
    /\ elapsed = 0
    /\ lastLapTime = 0
    /\ lastLapClient = NoClient
    /\ lapHistory = <<>>
    /\ clientsMux = NoProc
    /\ stateMux = NoProc
    /\ now = 0
    /\ pc = [p \in Procs |-> IF p \in Conns THEN "idle"
                             ELSE IF p = Ticker THEN "tick" ELSE "free"]
    /\ clientID = [c \in Conns |-> NoClient]
    /\ cmd = [c \in Conns |-> ""]
    /\ currentClients = [p \in Procs |-> {}]
    /\ smp = [p \in Procs |-> NoSample]
    /\ writers = [c \in Conns |-> 0]
    /\ owed = 0
    /\ owedTurn = 0
    /\ nEvents = 0

\* --------------------------------------------------------- the wall clock

\* Time passes (the monotonic clock of time.Now / time.Since never goes back).
ClockTick ==
    /\ now < MaxTicks * ClockStep
    /\ now' = now + ClockStep
    /\ UNCHANGED <<sessionVars, timerVars, muxVars, pc, localVars, writers, obsVars>>

\* ------------------------------------------- the reads of the timer fields

\* A goroutine is between the Lock of line 335 and the writes of lines
\* 338-342, which it makes without holding stateMux.
RotationWriting == \E c \in Conns : pc[c] = "next2w"

\* What the reads of lines 421-429 (and 482-490), made under stateMux, can
\* return: the fields' values, or, while lines 338-342 are being written
\* without stateMux, any mix of the values before and after those writes.
SampleChoices ==
    IF RotationWriting
    THEN {Sample(r, t, c) : r \in {isRunning, FALSE}, t \in {lastLapTime, 0},
                            c \in {lastLapClient, NoClient}}
    ELSE {Sample(isRunning, lastLapTime, lastLapClient)}

\* The reported time is observed at every sample: a sample that saw the timer
\* running sets what later ones owe, one that saw it stopped owes nothing.
Observe(s) ==
    /\ owed' = IF s.run THEN s.ms ELSE 0
    /\ owedTurn' = IF s.run THEN s.ms ELSE 0

\* ------------------------------------------------ handleSessionWS: connect

\* upgrader.Upgrade succeeds (line 222); the handler is about to Lock.
Accept(c) ==
    /\ pc[c] = "idle"
    /\ pc' = [pc EXCEPT ![c] = "join"]
    /\ UNCHANGED <<sessionVars, timerVars, muxVars, now, localVars, writers, obsVars>>

\* The name loop without the test of lines 232-235: any name generateName
\* returns is taken.
GenerateAnyName == Names

\* What the name loop of lines 231-237 can end with.
GenerateName == Names \ IDs(clients)

\* Join with the test of line 242 reduced to its second half: whoever
\* connects is given control of what is then the first place of the order.
JoinTakesControl(c) ==
    /\ pc[c] = "join"
    /\ clientsMux = NoProc
    /\ \E n \in GenerateName :
        /\ clientID' = [clientID EXCEPT ![c] = n]
        /\ clients' = clients \cup {<<n, c>>}
        /\ clientOrder' = Append(clientOrder, n)
        /\ activeClientID' = IF Len(clientOrder') > 0 THEN n ELSE activeClientID
    /\ clientsMux' = c
    /\ pc' = [pc EXCEPT ![c] = "join_u"]
    /\ UNCHANGED <<turnsCompleted, timerVars, stateMux, now, cmd, currentClients, smp,
                   writers, obsVars, boundVars>>

\* Lines 229-246: pick a free name, add the client, first client controls.
Join(c) ==
    /\ pc[c] = "join"
    /\ clientsMux = NoProc
    /\ \E n \in GenerateName :
        /\ clientID' = [clientID EXCEPT ![c] = n]
        /\ clients' = clients \cup {<<n, c>>}
        /\ clientOrder' = Append(clientOrder, n)
        /\ activeClientID' = IF activeClientID = NoClient /\ Len(clientOrder') > 0
                             THEN clientOrder'[1] ELSE activeClientID
    /\ clientsMux' = c
    /\ pc' = [pc EXCEPT ![c] = "join_u"]
    /\ UNCHANGED <<turnsCompleted, timerVars, stateMux, now, cmd, currentClients, smp,
                   writers, obsVars, boundVars>>

\* Line 247.
JoinUnlock(c) ==
    /\ pc[c] = "join_u"
    /\ clientsMux' = NoProc
    /\ pc' = [pc EXCEPT ![c] = "ssc1"]
    /\ UNCHANGED <<sessionVars, timerVars, stateMux, now, localVars, writers, obsVars,
                   boundVars>>

\* ------------------------------------------------------ sendStateToClient

\* Lines 471-475: copy the clients map under clientsMux.
SendStateCopy(c) ==
    /\ pc[c] = "ssc1"
    /\ clientsMux = NoProc
    /\ clientsMux' = c
    /\ currentClients' = [currentClients EXCEPT ![c] = clients]
    /\ pc' = [pc EXCEPT ![c] = "ssc1_u"]
    /\ UNCHANGED <<sessionVars, timerVars, stateMux, now, clientID, cmd, smp, writers,
                   obsVars, boundVars>>

\* Line 476.
SendStateCopyUnlock(c) ==
    /\ pc[c] = "ssc1_u"
    /\ clientsMux' = NoProc
    /\ pc' = [pc EXCEPT ![c] = "ssc2"]
    /\ UNCHANGED <<sessionVars, timerVars, stateMux, now, localVars, writers, obsVars,
                   boundVars>>

\* Lines 478-490: Lock stateMux (released only on return) and read the timer.
SendStateSample(c) ==
    /\ pc[c] = "ssc2"
    /\ stateMux = NoProc
    /\ stateMux' = c
    /\ \E s \in SampleChoices :
        /\ smp' = [smp EXCEPT ![c] = s]
        /\ Observe(s)
    /\ pc' = [pc EXCEPT ![c] = "ssc3"]
    /\ UNCHANGED <<sessionVars, timerVars, clientsMux, now, clientID, cmd, currentClients,
                   writers, boundVars>>

\* The message sendStateToClient builds at lines 497-506.
SendStateMessage(c) == Message(smp[c], currentClients[c], clientID[c])

\* Lines 492-513: read activeClientID, marshal, call conn.WriteMessage.
SendStateBuild(c) ==
    /\ pc[c] = "ssc3"
    /\ pc' = [pc EXCEPT ![c] = "ssc4"]
    /\ UNCHANGED <<sessionVars, timerVars, muxVars, now, localVars, writers, obsVars,
                   boundVars>>

\* Lines 513-517: WriteMessage returns; the deferred Unlock of line 479 runs.
SendStateWritten(c) ==
    /\ pc[c] = "ssc4"
    /\ stateMux' = NoProc
    /\ currentClients' = [currentClients EXCEPT ![c] = {}]
    /\ smp' = [smp EXCEPT ![c] = NoSample]
    /\ pc' = [pc EXCEPT ![c] = "bc1"]
    /\ UNCHANGED <<sessionVars, timerVars, clientsMux, now, clientID, cmd, writers, obsVars,
                   boundVars>>

\* --------------------------------------------------------- broadcastState

\* broadcastState is called by a handler after connecting (line 254, pc bc*),
\* by a handler while it still holds clientsMux (line 292, pc xbc*), by the
\* ticker (line 217) and by the goroutines of lines 379 and 407.
BroadcastPc ==
    [bc1 |-> "bc1_u", bc1_u |-> "bc2", bc2 |-> "bc2_u", bc2_u |-> "bc3",
     xbc1 |-> "xbc1_u", xbc1_u |-> "xbc2", xbc2 |-> "xbc2_u", xbc2_u |-> "xbc3"]

\* Where broadcastState returns to.
BroadcastReturn(p) ==
    IF p \in Conns THEN (IF pc[p] = "bc3" THEN "read" ELSE "leave_u")
    ELSE IF p = Ticker THEN "tick" ELSE "free"

\* Lines 412-416: copy the clients map under clientsMux.
BroadcastCopy(p) ==
    /\ pc[p] \in {"bc1", "xbc1"}
    /\ clientsMux = NoProc
    /\ clientsMux' = p
    /\ currentClients' = [currentClients EXCEPT ![p] = clients]
    /\ pc' = [pc EXCEPT ![p] = BroadcastPc[pc[p]]]
    /\ UNCHANGED <<sessionVars, timerVars, stateMux, now, clientID, cmd, smp, writers,
                   obsVars, boundVars>>

\* Line 417.
BroadcastCopyUnlock(p) ==
    /\ pc[p] \in {"bc1_u", "xbc1_u"}
    /\ clientsMux' = NoProc
    /\ pc' = [pc EXCEPT ![p] = BroadcastPc[pc[p]]]
    /\ UNCHANGED <<sessionVars, timerVars, stateMux, now, localVars, writers, obsVars,
                   boundVars>>

\* Lines 419-429: read the timer under stateMux.
BroadcastSample(p) ==
    /\ pc[p] \in {"bc2", "xbc2"}
    /\ stateMux = NoProc
    /\ stateMux' = p
    /\ \E s \in SampleChoices :
        /\ smp' = [smp EXCEPT ![p] = s]
        /\ Observe(s)
    /\ pc' = [pc EXCEPT ![p] = BroadcastPc[pc[p]]]
    /\ UNCHANGED <<sessionVars, timerVars, clientsMux, now, clientID, cmd, currentClients,
                   writers, boundVars>>

\* Line 430.
BroadcastSampleUnlock(p) ==
    /\ pc[p] \in {"bc2_u", "xbc2_u"}
    /\ stateMux' = NoProc
    /\ pc' = [pc EXCEPT ![p] = BroadcastPc[pc[p]]]
    /\ UNCHANGED <<sessionVars, timerVars, clientsMux, now, localVars, writers, obsVars,
                   boundVars>>

\* The personalised messages of lines 437-452, one per copied client: the
\* base message reads s.activeClientID with no mutex held.
BroadcastMessages(p) ==
    {Message(smp[p], currentClients[p], e[1]) : e \in currentClients[p]}

\* The deliveries with yourId taken from the base message's activeClient
\* instead of the loop variable of line 445.
BroadcastDeliveriesToActive(p) ==
    {<<e[2], Message(smp[p], currentClients[p], activeClientID)>> : e \in currentClients[p]}

\* What lines 445-465 hand to the writer goroutines: for every copied client,
\* its connection and the message personalised with its identifier.
BroadcastDeliveries(p) ==
    {<<e[2], Message(smp[p], currentClients[p], e[1])>> : e \in currentClients[p]}

\* Lines 432-466: build the messages and start one writer goroutine per
\* copied client (line 460); those to the connections in busy are still in
\* WriteMessage when broadcastState returns.
BroadcastSend(p, busy) ==
    /\ pc[p] \in {"bc3", "xbc3"}
    /\ busy \subseteq {d[1] : d \in BroadcastDeliveries(p)}
    /\ writers' = [c \in Conns |-> IF c \in busy THEN writers[c] + 1 ELSE writers[c]]
    /\ currentClients' = [currentClients EXCEPT ![p] = {}]
    /\ smp' = [smp EXCEPT ![p] = NoSample]
    /\ pc' = [pc EXCEPT ![p] = BroadcastReturn(p)]
    /\ UNCHANGED <<sessionVars, timerVars, muxVars, now, clientID, cmd, obsVars, boundVars>>

\* Lines 460-465: a writer goroutine's conn.WriteMessage returns.
WriteDone(c) ==
    /\ writers[c] > 0
    /\ writers' = [writers EXCEPT ![c] = writers[c] - 1]
    /\ UNCHANGED <<sessionVars, timerVars, muxVars, now, pc, localVars, obsVars, boundVars>>

\* ---------------------------------------------------------------- timerLoop

\* Lines 209-211: a tick; count the clients under clientsMux.
TimerTick ==
    /\ pc[Ticker] = "tick"
    /\ clientsMux = NoProc
    /\ clientsMux' = Ticker
    /\ pc' = [pc EXCEPT ![Ticker] = IF Cardinality(clients) = 0 THEN "tick_skip_u"
                                    ELSE "tick_go_u"]
    /\ UNCHANGED <<sessionVars, timerVars, stateMux, now, localVars, writers, obsVars,
                   boundVars>>

\* Lines 212-217: Unlock; skip the broadcast of an empty session.
TimerTickUnlock ==
    /\ pc[Ticker] \in {"tick_skip_u", "tick_go_u"}
    /\ clientsMux' = NoProc
    /\ pc' = [pc EXCEPT ![Ticker] = IF pc[Ticker] = "tick_skip_u" THEN "tick" ELSE "bc1"]
    /\ UNCHANGED <<sessionVars, timerVars, stateMux, now, localVars, writers, obsVars,
                   boundVars>>

\* ------------------------------------------- handleSessionWS: the read loop

\* Lines 256-270: ReadJSON returns a frame; a frame whose type is "command"
\* is handed to handleCommand, any other frame is ignored.
ReceiveFrame(c, type, verb) ==
    /\ pc[c] = "read"
    /\ IF type = "command"
       THEN /\ cmd' = [cmd EXCEPT ![c] = verb]
            /\ pc' = [pc EXCEPT ![c] = "auth"]
       ELSE UNCHANGED <<cmd, pc>>
    /\ UNCHANGED <<sessionVars, timerVars, muxVars, now, clientID, currentClients, smp,
                   writers, obsVars>>

\* Lines 261-266: ReadJSON fails (the peer closed, the transport failed or the
\* frame does not decode); the loop is left.
ReadError(c) ==
    /\ pc[c] = "read"
    /\ pc' = [pc EXCEPT ![c] = "closing"]
    /\ UNCHANGED <<sessionVars, timerVars, muxVars, now, localVars, writers, obsVars>>

\* ---------------------------------------------------------- handleCommand

\* Authorize without the comparison of line 305: every sender is let through.
AuthorizeAnyone(c) ==
    /\ pc[c] = "auth"
    /\ clientsMux = NoProc
    /\ clientsMux' = c
    /\ pc' = [pc EXCEPT ![c] = "auth_ok_u"]
    /\ UNCHANGED <<sessionVars, timerVars, stateMux, now, localVars, writers, obsVars,
                   boundVars>>

\* Authorize with the comparison of line 305 replaced by a look-up in
\* clientOrder: every connected client's command is let through.
AuthorizeInRoster(c) ==
    /\ pc[c] = "auth"
    /\ clientsMux = NoProc
    /\ clientsMux' = c
    /\ pc' = [pc EXCEPT ![c] = IF clientID[c] \notin Range(clientOrder) THEN "auth_rej_u"
                               ELSE "auth_ok_u"]
    /\ UNCHANGED <<sessionVars, timerVars, stateMux, now, localVars, writers, obsVars,
                   boundVars>>

\* Lines 304-305: compare the sender with activeClientID under clientsMux.
Authorize(c) ==
    /\ pc[c] = "auth"
    /\ clientsMux = NoProc
    /\ clientsMux' = c
    /\ pc' = [pc EXCEPT ![c] = IF clientID[c] # activeClientID THEN "auth_rej_u"
                               ELSE "auth_ok_u"]
    /\ UNCHANGED <<sessionVars, timerVars, stateMux, now, localVars, writers, obsVars,
                   boundVars>>

\* Lines 306-308: not the active client; Unlock and return to the read loop.
AuthorizeReject(c) ==
    /\ pc[c] = "auth_rej_u"
    /\ clientsMux' = NoProc
    /\ cmd' = [cmd EXCEPT ![c] = ""]
    /\ pc' = [pc EXCEPT ![c] = "read"]
    /\ UNCHANGED <<sessionVars, timerVars, stateMux, now, clientID, currentClients, smp,
                   writers, obsVars, boundVars>>

\* Lines 310-312 and 383: Unlock and go on with the command.
AuthorizeAccept(c) ==
    /\ pc[c] = "auth_ok_u"
    /\ clientsMux' = NoProc
    /\ pc' = [pc EXCEPT ![c] = IF cmd[c] = "next" THEN "next1" ELSE "apply"]
    /\ UNCHANGED <<sessionVars, timerVars, stateMux, now, localVars, writers, obsVars,
                   boundVars>>

\* currentLap of lines 314-319.
CurrentLap == IF isRunning THEN elapsed + Since(startTime) ELSE elapsed

\* NextLap with the append of line 326 made only when there is somebody to
\* pass control to.
NextLapUnlessAlone(c) ==
    /\ pc[c] = "next1"
    /\ stateMux = NoProc
    /\ stateMux' = c
    /\ lastLapTime' = CurrentLap
    /\ lastLapClient' = clientID[c]
    /\ turnsCompleted' = turnsCompleted + 1
    /\ lapHistory' = IF Len(clientOrder) > 1
                     THEN Append(lapHistory, Lap(clientID[c], CurrentLap))
                     ELSE lapHistory
    /\ isRunning' = TRUE
    /\ startTime' = now
    /\ elapsed' = 0
    /\ owedTurn' = 0
    /\ pc' = [pc EXCEPT ![c] = "next1_u"]
    /\ UNCHANGED <<clients, clientOrder, activeClientID, clientsMux, now, localVars,
                   writers, owed, boundVars>>

\* Lines 313-331: record the lap and restart the timer, under stateMux.
NextLap(c) ==
    /\ pc[c] = "next1"
    /\ stateMux = NoProc
    /\ stateMux' = c
    /\ lastLapTime' = CurrentLap
    /\ lastLapClient' = clientID[c]
    /\ turnsCompleted' = turnsCompleted + 1
    /\ lapHistory' = Append(lapHistory, Lap(clientID[c], CurrentLap))
    /\ isRunning' = TRUE
    /\ startTime' = now
    /\ elapsed' = 0
    /\ owedTurn' = 0
    /\ pc' = [pc EXCEPT ![c] = "next1_u"]
    /\ UNCHANGED <<clients, clientOrder, activeClientID, clientsMux, now, localVars,
                   writers, owed, boundVars>>

\* NextLapUnlock without the Unlock of line 333.
NextLapKeepsLock(c) ==
    /\ pc[c] = "next1_u"
    /\ pc' = [pc EXCEPT ![c] = "next2"]
    /\ UNCHANGED <<sessionVars, timerVars, muxVars, now, localVars, writers, obsVars,
                   boundVars>>

\* Line 333.
NextLapUnlock(c) ==
    /\ pc[c] = "next1_u"
    /\ stateMux' = NoProc
    /\ pc' = [pc EXCEPT ![c] = "next2"]
    /\ UNCHANGED <<sessionVars, timerVars, clientsMux, now, localVars, writers, obsVars,
                   boundVars>>

\* NextInOrder without the "%" of line 354: the last client keeps control.
NextInOrderNoWrap ==
    LET i == IndexOf(clientOrder, activeClientID)
    IN IF i # 0 THEN (IF i < Len(clientOrder) THEN clientOrder[i + 1] ELSE clientOrder[i])
       ELSE IF Len(clientOrder) > 0 THEN clientOrder[1] ELSE NoClient

\* The client after the active one in clientOrder, wrapping (lines 345-364).
NextInOrder ==
    LET i == IndexOf(clientOrder, activeClientID)
    IN IF i # 0 THEN clientOrder[(i % Len(clientOrder)) + 1]
       ELSE IF Len(clientOrder) > 0 THEN clientOrder[1] ELSE NoClient

\* NextRotate passing control also when the round is complete.
NextRotateAlways(c) ==
    /\ pc[c] = "next2"
    /\ clientsMux = NoProc
    /\ clientsMux' = c
    /\ IF Len(clientOrder) > 1
       THEN /\ activeClientID' = NextInOrder
            /\ pc' = [pc EXCEPT ![c] = IF turnsCompleted >= Len(clientOrder)
                                       THEN "next2w" ELSE "next_u"]
       ELSE /\ pc' = [pc EXCEPT ![c] = "next3"]
            /\ UNCHANGED activeClientID
    /\ UNCHANGED <<clients, clientOrder, turnsCompleted, timerVars, stateMux, now,
                   localVars, writers, obsVars, boundVars>>

\* NextRotate with ">" for the ">=" of line 337: the round is closed one
\* advance late.
NextRotateLate(c) ==
    /\ pc[c] = "next2"
    /\ clientsMux = NoProc
    /\ clientsMux' = c
    /\ IF Len(clientOrder) > 1
       THEN IF turnsCompleted > Len(clientOrder)
            THEN /\ pc' = [pc EXCEPT ![c] = "next2w"]
                 /\ UNCHANGED activeClientID
            ELSE /\ activeClientID' = NextInOrder
                 /\ pc' = [pc EXCEPT ![c] = "next_u"]
       ELSE /\ pc' = [pc EXCEPT ![c] = "next3"]
            /\ UNCHANGED activeClientID
    /\ UNCHANGED <<clients, clientOrder, turnsCompleted, timerVars, stateMux, now,
                   localVars, writers, obsVars, boundVars>>

\* Lines 335-337, 345-366: Lock clientsMux and choose the branch; the branch
\* that passes control (lines 345-364) writes activeClientID at once.
NextRotate(c) ==
    /\ pc[c] = "next2"
    /\ clientsMux = NoProc
    /\ clientsMux' = c
    /\ IF Len(clientOrder) > 1
       THEN IF turnsCompleted >= Len(clientOrder)
            THEN /\ pc' = [pc EXCEPT ![c] = "next2w"]
                 /\ UNCHANGED activeClientID
            ELSE /\ activeClientID' = NextInOrder
                 /\ pc' = [pc EXCEPT ![c] = "next_u"]
       ELSE /\ pc' = [pc EXCEPT ![c] = "next3"]
            /\ UNCHANGED activeClientID
    /\ UNCHANGED <<clients, clientOrder, turnsCompleted, timerVars, stateMux, now,
                   localVars, writers, obsVars, boundVars>>

\* NextComplete without line 338: the round is closed and the timer runs on.
NextCompleteRunsOn(c) ==
    /\ pc[c] = "next2w"
    /\ elapsed' = 0
    /\ lastLapTime' = 0
    /\ lastLapClient' = NoClient
    /\ turnsCompleted' = 0
    /\ owedTurn' = 0
    /\ pc' = [pc EXCEPT ![c] = "next_u"]
    /\ UNCHANGED <<clients, clientOrder, activeClientID, isRunning, startTime, lapHistory,
                   muxVars, now, localVars, writers, owed, boundVars>>

\* Lines 338-342: every client has had its turn; the timer is stopped and the
\* round closed, with clientsMux held and stateMux not.
NextComplete(c) ==
    /\ pc[c] = "next2w"
    /\ isRunning' = FALSE
    /\ elapsed' = 0
    /\ lastLapTime' = 0
    /\ lastLapClient' = NoClient
    /\ turnsCompleted' = 0
    /\ owed' = 0
    /\ owedTurn' = 0
    /\ pc' = [pc EXCEPT ![c] = "next_u"]
    /\ UNCHANGED <<clients, clientOrder, activeClientID, startTime, lapHistory, muxVars,
                   now, localVars, writers, boundVars>>

\* NextSingle without line 373: the turn just counted stays counted.
NextSingleKeepsTurns(c) ==
    /\ pc[c] = "next3"
    /\ stateMux = NoProc
    /\ stateMux' = c
    /\ isRunning' = TRUE
    /\ startTime' = now
    /\ elapsed' = 0
    /\ lastLapTime' = 0
    /\ lastLapClient' = NoClient
    /\ owedTurn' = 0
    /\ pc' = [pc EXCEPT ![c] = "next3_u"]
    /\ UNCHANGED <<clients, clientOrder, activeClientID, turnsCompleted, lapHistory,
                   clientsMux, now, localVars, writers, owed, boundVars>>

\* Lines 367-374: a single client; restart the timer for it, under both mutexes.
NextSingle(c) ==
    /\ pc[c] = "next3"
    /\ stateMux = NoProc
    /\ stateMux' = c
    /\ isRunning' = TRUE
    /\ startTime' = now
    /\ elapsed' = 0
    /\ lastLapTime' = 0
    /\ lastLapClient' = NoClient
    /\ turnsCompleted' = 0
    /\ owedTurn' = 0
    /\ pc' = [pc EXCEPT ![c] = "next3_u"]
    /\ UNCHANGED <<clients, clientOrder, activeClientID, lapHistory, clientsMux, now,
                   localVars, writers, owed, boundVars>>

\* Line 375.
NextSingleUnlock(c) ==
    /\ pc[c] = "next3_u"
    /\ stateMux' = NoProc
    /\ pc' = [pc EXCEPT ![c] = "next_u"]
    /\ UNCHANGED <<sessionVars, timerVars, clientsMux, now, localVars, writers, obsVars,
                   boundVars>>

\* Line 377.
NextUnlock(c) ==
    /\ pc[c] = "next_u"
    /\ clientsMux' = NoProc
    /\ pc' = [pc EXCEPT ![c] = "next_go"]
    /\ UNCHANGED <<sessionVars, timerVars, stateMux, now, localVars, writers, obsVars,
                   boundVars>>

\* Lines 379-380: go s.broadcastState(), and return to the read loop.
NextGo(c) ==
    /\ pc[c] = "next_go"
    /\ \E g \in Spawned :
        /\ pc[g] = "free"
        /\ pc' = [pc EXCEPT ![c] = "read", ![g] = "bc1"]
    /\ cmd' = [cmd EXCEPT ![c] = ""]
    /\ UNCHANGED <<sessionVars, timerVars, muxVars, now, clientID, currentClients, smp,
                   writers, obsVars, boundVars>>

\* ApplyStart without the test of line 390: a start while running restarts.
ApplyStartAlways ==
    /\ startTime' = now
    /\ isRunning' = TRUE
    /\ UNCHANGED <<elapsed, lastLapTime, lastLapClient, lapHistory, turnsCompleted, obsVars>>

\* ApplyPause with the operands of line 396 the wrong way round.
ApplyPauseBackwards ==
    /\ IF isRunning
       THEN /\ elapsed' = elapsed + (startTime - now)
            /\ isRunning' = FALSE
            /\ owed' = 0
            /\ owedTurn' = 0
       ELSE UNCHANGED <<elapsed, isRunning, obsVars>>
    /\ UNCHANGED <<startTime, lastLapTime, lastLapClient, lapHistory, turnsCompleted>>

\* ApplyPause with "=" for the "+=" of line 396: what had accumulated is lost.
ApplyPauseForgets ==
    /\ IF isRunning
       THEN /\ elapsed' = Since(startTime)
            /\ isRunning' = FALSE
            /\ owed' = 0
            /\ owedTurn' = 0
       ELSE UNCHANGED <<elapsed, isRunning, obsVars>>
    /\ UNCHANGED <<startTime, lastLapTime, lastLapClient, lapHistory, turnsCompleted>>

\* ApplyReset without line 405: the turn counter survives.
ApplyResetKeepsTurns ==
    /\ isRunning' = FALSE
    /\ elapsed' = 0
    /\ lastLapTime' = 0
    /\ lastLapClient' = NoClient
    /\ lapHistory' = <<>>
    /\ owed' = 0
    /\ owedTurn' = 0
    /\ UNCHANGED <<startTime, turnsCompleted>>

\* The switch of lines 388-406 on the timer fields and turnsCompleted.
ApplyStart ==
    /\ IF ~isRunning
       THEN startTime' = now /\ isRunning' = TRUE
       ELSE UNCHANGED <<startTime, isRunning>>
    /\ UNCHANGED <<elapsed, lastLapTime, lastLapClient, lapHistory, turnsCompleted, obsVars>>

ApplyPause ==
    /\ IF isRunning
       THEN /\ elapsed' = elapsed + Since(startTime)
            /\ isRunning' = FALSE
            /\ owed' = 0
            /\ owedTurn' = 0
       ELSE UNCHANGED <<elapsed, isRunning, obsVars>>
    /\ UNCHANGED <<startTime, lastLapTime, lastLapClient, lapHistory, turnsCompleted>>

ApplyReset ==
    /\ isRunning' = FALSE
    /\ elapsed' = 0
    /\ lastLapTime' = 0
    /\ lastLapClient' = NoClient
    /\ lapHistory' = <<>>
    /\ turnsCompleted' = 0
    /\ owed' = 0
    /\ owedTurn' = 0
    /\ UNCHANGED startTime

\* Apply with the reset of lines 399-405 as the switch's default case.
ApplyDefaultResets(c) ==
    /\ pc[c] = "apply"
    /\ stateMux = NoProc
    /\ stateMux' = c
    /\ CASE cmd[c] = "start" -> ApplyStart
         [] cmd[c] = "pause" -> ApplyPause
         [] OTHER -> ApplyReset
    /\ \E g \in Spawned :
        /\ pc[g] = "free"
        /\ pc' = [pc EXCEPT ![c] = "apply_u", ![g] = "bc1"]
    /\ UNCHANGED <<clients, clientOrder, activeClientID, clientsMux, now, localVars, writers,
                   boundVars>>

\* Lines 383-407: start, pause, reset or an unknown verb, under stateMux, and
\* go s.broadcastState() (line 407) before the deferred Unlock.
Apply(c) ==
    /\ pc[c] = "apply"
    /\ stateMux = NoProc
    /\ stateMux' = c
    /\ CASE cmd[c] = "start" -> ApplyStart
         [] cmd[c] = "pause" -> ApplyPause
         [] cmd[c] = "reset" -> ApplyReset
         [] OTHER -> UNCHANGED <<timerVars, turnsCompleted, obsVars>>
    /\ \E g \in Spawned :
        /\ pc[g] = "free"
        /\ pc' = [pc EXCEPT ![c] = "apply_u", ![g] = "bc1"]
    /\ UNCHANGED <<clients, clientOrder, activeClientID, clientsMux, now, localVars, writers,
                   boundVars>>

\* Line 384 (deferred) and 408: Unlock stateMux and return to the read loop.
ApplyUnlock(c) ==
    /\ pc[c] = "apply_u"
    /\ stateMux' = NoProc
    /\ cmd' = [cmd EXCEPT ![c] = ""]
    /\ pc' = [pc EXCEPT ![c] = "read"]
    /\ UNCHANGED <<sessionVars, timerVars, clientsMux, now, clientID, currentClients, smp,
                   writers, obsVars, boundVars>>

\* --------------------------------------------- handleSessionWS: disconnect

\* Leave without lines 285-289: nobody takes over from the active client.
LeaveKeepsController(c) ==
    /\ pc[c] = "closing"
    /\ clientsMux = NoProc
    /\ clientsMux' = c
    /\ clients' = {e \in clients : e[1] # clientID[c]}
    /\ clientOrder' = RemoveFirst(clientOrder, clientID[c])
    /\ pc' = [pc EXCEPT ![c] = IF activeClientID = clientID[c] THEN "xbc1" ELSE "leave_u"]
    /\ UNCHANGED <<activeClientID, turnsCompleted, timerVars, stateMux, now, localVars,
                   writers, obsVars, boundVars>>

\* Leave without the test of line 284: whoever leaves, the first client left
\* is made the active one.
LeaveAlwaysFront(c) ==
    /\ pc[c] = "closing"
    /\ clientsMux = NoProc
    /\ clientsMux' = c
    /\ clients' = {e \in clients : e[1] # clientID[c]}
    /\ clientOrder' = RemoveFirst(clientOrder, clientID[c])
    /\ activeClientID' = IF Len(clientOrder') > 0 THEN clientOrder'[1] ELSE NoClient
    /\ pc' = [pc EXCEPT ![c] = IF activeClientID = clientID[c] THEN "xbc1" ELSE "leave_u"]
    /\ UNCHANGED <<turnsCompleted, timerVars, stateMux, now, localVars, writers, obsVars,
                   boundVars>>

\* Leave handing control to the client that followed the active one.
LeaveToSuccessor(c) ==
    /\ pc[c] = "closing"
    /\ clientsMux = NoProc
    /\ clientsMux' = c
    /\ clients' = {e \in clients : e[1] # clientID[c]}
    /\ clientOrder' = RemoveFirst(clientOrder, clientID[c])
    /\ IF activeClientID = clientID[c]
       THEN /\ activeClientID' = IF Len(clientOrder') > 0 THEN NextInOrder ELSE NoClient
            /\ pc' = [pc EXCEPT ![c] = "xbc1"]
       ELSE /\ UNCHANGED activeClientID
            /\ pc' = [pc EXCEPT ![c] = "leave_u"]
    /\ UNCHANGED <<turnsCompleted, timerVars, stateMux, now, localVars, writers, obsVars,
                   boundVars>>

\* Lines 273-291: remove the client; if it was the active client, the first
\* client left in clientOrder (or none) becomes active, and broadcastState is
\* called (line 292) with clientsMux still held.
Leave(c) ==
    /\ pc[c] = "closing"
    /\ clientsMux = NoProc
    /\ clientsMux' = c
    /\ clients' = {e \in clients : e[1] # clientID[c]}
    /\ clientOrder' = RemoveFirst(clientOrder, clientID[c])
    /\ IF activeClientID = clientID[c]
       THEN /\ activeClientID' = IF Len(clientOrder') > 0 THEN clientOrder'[1] ELSE NoClient
            /\ pc' = [pc EXCEPT ![c] = "xbc1"]
       ELSE /\ UNCHANGED activeClientID
            /\ pc' = [pc EXCEPT ![c] = "leave_u"]
    /\ UNCHANGED <<turnsCompleted, timerVars, stateMux, now, localVars, writers, obsVars,
                   boundVars>>

\* Lines 294-300: Unlock, conn.Close(), and the handler returns.
LeaveUnlock(c) ==
    /\ pc[c] = "leave_u"
    /\ clientsMux' = NoProc
    /\ clientID' = [clientID EXCEPT ![c] = NoClient]
    /\ pc' = [pc EXCEPT ![c] = "idle"]
    /\ UNCHANGED <<sessionVars, timerVars, stateMux, now, cmd, currentClients, smp, writers,
                   obsVars, boundVars>>

\* ------------------------------------------------------------------- Next

\* Processes inside broadcastState or sendStateToClient.
Broadcasting ==
    {p \in Procs : pc[p] \in {"ssc1_u", "ssc2", "ssc3", "ssc4", "bc1_u", "bc2", "bc2_u", "bc3",
                              "xbc1_u", "xbc2", "xbc2_u", "xbc3"}}

\* Processes that have read the timer fields and not yet sent.
Sampled == {p \in Procs : pc[p] \in {"ssc3", "ssc4", "bc2_u", "bc3", "xbc2_u", "xbc3"}}

\* A frame that is not a command arrives.
OtherFrame == \E c \in Conns : ReceiveFrame(c, "ping", "") /\ UNCHANGED boundVars

\* The steps of one connection's handler goroutine.
Handler(c) ==
    \/ Join(c) \/ JoinUnlock(c)
    \/ Cardinality(Broadcasting) < MaxBroadcasts /\ SendStateCopy(c)
    \/ SendStateCopyUnlock(c) \/ SendStateSample(c)
    \/ SendStateBuild(c) \/ SendStateWritten(c)
    \/ Authorize(c) \/ AuthorizeReject(c) \/ AuthorizeAccept(c)
    \/ NextLap(c) \/ NextLapUnlock(c) \/ NextRotate(c) \/ NextComplete(c)
    \/ NextSingle(c) \/ NextSingleUnlock(c) \/ NextUnlock(c) \/ NextGo(c)
    \/ Apply(c) \/ ApplyUnlock(c)
    \/ Leave(c) \/ LeaveUnlock(c)

\* The steps of broadcastState in process p; its writer goroutines have
\* returned when it returns.
Broadcast(p) ==
    \/ Cardinality(Broadcasting) < MaxBroadcasts /\ BroadcastCopy(p)
    \/ BroadcastCopyUnlock(p)
    \/ BroadcastSample(p) \/ BroadcastSampleUnlock(p)
    \/ BroadcastSend(p, {})

\* A step of one of the goroutines, or a frame that changes nothing.
Step ==
    \/ \E c \in Conns : Handler(c)
    \/ \E p \in Procs : Broadcast(p)
    \/ TimerTick \/ TimerTickUnlock
    \/ OtherFrame

\* One more event of the environment, of at most max.
Event(max) == nEvents < max /\ nEvents' = nEvents + 1

\* The goroutines run; the environment acts at most max times: time passes,
\* connections are accepted on the slots given, frames arrive, reads fail.
NextWithin(max, slots) ==
    \/ Step
    \/ Event(max) /\ ClockTick
    \/ \E c \in slots : Event(max) /\ Accept(c)
    \/ \E c \in Conns, verb \in Commands :
        /\ Event(max)
        /\ verb = "next" => Len(lapHistory) < MaxLaps
        /\ ReceiveFrame(c, "command", verb)
    \/ \E c \in Conns : Event(max) /\ ReadError(c)

\* A session from its creation; connections arrive on two slots.
JoinSlots == {"c1", "c2"}
Next == NextWithin(MaxEvents, JoinSlots)
Spec == Init /\ [][Next]_vars

\* A session in which three participants have connected, in the order A, B,
\* C, and wait in their read loops.
InitRound ==
    /\ clients = {<<"A", "c1">>, <<"B", "c2">>, <<"C", "c3">>}
    /\ clientOrder = <<"A", "B", "C">>
    /\ activeClientID = "A"
    /\ turnsCompleted = 0
    /\ isRunning = FALSE
    /\ startTime = 0
    /\ elapsed = 0
    /\ lastLapTime = 0
    /\ lastLapClient = NoClient
    /\ lapHistory = <<>>
    /\ clientsMux = NoProc
    /\ stateMux = NoProc
    /\ now = 0
    /\ pc = [p \in Procs |-> IF p \in Conns THEN "read"
                             ELSE IF p = Ticker THEN "tick" ELSE "free"]
    /\ clientID = [c \in Conns |-> CASE c = "c1" -> "A" [] c = "c2" -> "B" [] OTHER -> "C"]
    /\ cmd = [c \in Conns |-> ""]
    /\ currentClients = [p \in Procs |-> {}]
    /\ smp = [p \in Procs |-> NoSample]
    /\ writers = [c \in Conns |-> 0]
    /\ owed = 0
    /\ owedTurn = 0
    /\ nEvents = 0

NextRound == NextWithin(RoundEvents, Conns)
SpecRound == InitRound /\ [][NextRound]_vars

\* A session whose only participant, A, has started the timer, let the clock
\* advance by one tick and paused: a tick's worth of time has accumulated.
InitPaused ==
    /\ clients = {<<"A", "c1">>}
    /\ clientOrder = <<"A">>
    /\ activeClientID = "A"
    /\ turnsCompleted = 0
    /\ isRunning = FALSE
    /\ startTime = 0
    /\ elapsed = ClockStep
    /\ lastLapTime = 0
    /\ lastLapClient = NoClient
    /\ lapHistory = <<>>
    /\ clientsMux = NoProc
    /\ stateMux = NoProc
    /\ now = ClockStep
    /\ pc = [p \in Procs |-> IF p = "c1" THEN "read"
                             ELSE IF p \in Conns THEN "idle"
                             ELSE IF p = Ticker THEN "tick" ELSE "free"]
    /\ clientID = [c \in Conns |-> IF c = "c1" THEN "A" ELSE NoClient]
    /\ cmd = [c \in Conns |-> ""]
    /\ currentClients = [p \in Procs |-> {}]
    /\ smp = [p \in Procs |-> NoSample]
    /\ writers = [c \in Conns |-> 0]
    /\ owed = 0
    /\ owedTurn = 0
    /\ nEvents = 0

\* From there a second participant may connect.
PausedSlots == {"c2"}
NextPaused == NextWithin(PausedEvents, PausedSlots)
SpecPaused == InitPaused /\ [][NextPaused]_vars

\* The steps of process p.
Proc(p) ==
    \/ p \in Conns /\ Handler(p)
    \/ Broadcast(p)
    \/ p = Ticker /\ (TimerTick \/ TimerTickUnlock)

\* The Go scheduler is preemptive, so a goroutine that can run does; a
\* goroutine blocked in sync.Mutex.Lock is handed the mutex once it has waited
\* a millisecond (the mutex's starvation mode), so a goroutine for which the
\* mutex is free again and again gets it.  The environment owes nothing.
Fairness == \A p \in Procs : SF_vars(Proc(p))

\* The session of three participants, with the goroutines scheduled fairly.
SpecLive == InitRound /\ [][NextRound]_vars /\ Fairness

\* The steps of one connection's handler while no read fails: connecting,
\* the on-connect send, and the commands.
HandlerSend(c) ==
    \/ Join(c) \/ JoinUnlock(c)
    \/ SendStateCopy(c) \/ SendStateCopyUnlock(c) \/ SendStateSample(c)
    \/ SendStateBuild(c)
    \/ Authorize(c) \/ AuthorizeReject(c) \/ AuthorizeAccept(c)
    \/ NextLap(c) \/ NextLapUnlock(c) \/ NextRotate(c) \/ NextComplete(c)
    \/ NextSingle(c) \/ NextSingleUnlock(c) \/ NextUnlock(c) \/ NextGo(c)
    \/ Apply(c) \/ ApplyUnlock(c)

\* The steps of broadcastState in process p, any number of them at once; its
\* writer goroutines take nothing from the session and are left out.
BroadcastFree(p) ==
    \/ BroadcastCopy(p) \/ BroadcastCopyUnlock(p)
    \/ BroadcastSample(p) \/ BroadcastSampleUnlock(p)
    \/ BroadcastSend(p, {})

\* The steps of process p that do not wait for a peer: all but the return of
\* the on-connect WriteMessage (line 513), which returns when the peer's
\* socket has taken the data.
ProcSend(p) ==
    \/ p \in Conns /\ HandlerSend(p)
    \/ BroadcastFree(p)
    \/ p = Ticker /\ (TimerTick \/ TimerTickUnlock)

\* The paused session of one participant: a second one may connect, commands
\* arrive, nobody disconnects, and the on-connect WriteMessage returns when
\* it returns.
NextSlow ==
    \/ \E c \in Conns : HandlerSend(c)
    \/ \E c \in Conns : SendStateWritten(c)
    \/ \E p \in Procs : BroadcastFree(p)
    \/ TimerTick \/ TimerTickUnlock
    \/ \E c \in PausedSlots : Event(SendEvents) /\ Accept(c)
    \/ \E c \in Conns, verb \in Commands :
        /\ Event(SendEvents)
        /\ verb = "next" => Len(lapHistory) < MaxLaps
        /\ ReceiveFrame(c, "command", verb)

\* Every goroutine that can run is scheduled and every mutex is handed to the
\* goroutines that wait for it (see Fairness); a WriteMessage to a slow peer
\* need never return.
FairnessSend == \A p \in Procs : SF_vars(ProcSend(p))

SpecSlow == InitPaused /\ [][NextSlow]_vars /\ FairnessSend

\* broadcastState returns while the writer goroutines it started for the
\* connections in busy (at least one) are still inside WriteMessage.
BroadcastLeavesWriters ==
    \E p \in Procs, busy \in SUBSET {c \in Conns : writers[c] < MaxWriters} :
        busy # {} /\ BroadcastSend(p, busy)

\* The paused session of one participant, with the writer goroutines of
\* broadcastState as goroutines of their own.
NextSend ==
    \/ NextWithin(SendEvents, PausedSlots)
    \/ BroadcastLeavesWriters
    \/ \E c \in Conns : WriteDone(c)

SpecSend == InitPaused /\ [][NextSend]_vars

\* ----------------------------------------------------------------- claims

\* C1. In every state, activeClientID is the empty string exactly when
\* clientOrder is empty, and otherwise it is one of the identifiers in
\* clientOrder.  (In each state of this model clientsMux is free, or held by a
\* goroutine that has made all of its critical section's writes to
\* clientOrder and activeClientID.)
C1_ControllerInRoster ==
    /\ (activeClientID = NoClient) <=> (clientOrder = <<>>)
    /\ activeClientID # NoClient => activeClientID \in Range(clientOrder)

\* An active client has left while laps were on record and another client
\* has taken over.
C1_Witness ==
    \E c \in Conns :
        /\ pc[c] = "xbc1"
        /\ activeClientID \in Range(clientOrder)
        /\ Len(lapHistory) > 0

\* C2. A command from a client that is not the active client when
\* handleCommand compares the two is dropped: the handler's steps from the
\* comparison back to the read loop change no field of the session or of the
\* timer, and write nothing to any connection.
C2_UnauthorizedDropped ==
    [][\A c \in Conns :
        /\ (pc[c] = "auth" /\ pc'[c] # "auth" /\ clientID[c] # activeClientID)
            => /\ pc'[c] = "auth_rej_u"
               /\ UNCHANGED <<sessionVars, timerVars, writers>>
        /\ (pc[c] = "auth_rej_u" /\ pc'[c] # "auth_rej_u")
            => /\ pc'[c] = "read"
               /\ UNCHANGED <<sessionVars, timerVars, writers>>]_vars

\* A reset from a client other than the active one is being dropped while the
\* timer runs.
C2_Witness ==
    \E c \in Conns :
        /\ pc[c] = "auth_rej_u"
        /\ cmd[c] = "reset"
        /\ clientID[c] # activeClientID
        /\ isRunning

\* C3. A handler whose read has failed ends: it leaves clientOrder and returns
\* (so its slot is idle again), whether or not its client was the active one.
C3_DisconnectCompletes ==
    \A c \in Conns : (pc[c] = "closing") ~> (pc[c] = "idle")

\* C4. The session stays live whatever has happened before: a connection that
\* has been accepted gets its client registered and reaches the read loop, and
\* a command of the active client is carried out and its handler reads on.
C4_SessionStaysLive ==
    /\ \A c \in Conns : (pc[c] = "join") ~> (pc[c] = "read")
    /\ \A c \in Conns : (pc[c] = "auth") ~> (pc[c] = "read")

\* Exactly k events have happened since the three participants connected, all
\* of them "next" commands that were accepted, and every handler is back in
\* its read loop.
Advances(k) ==
    /\ nEvents = k
    /\ Len(lapHistory) = k
    /\ \A c \in Conns : pc[c] = "read"
    /\ clientOrder = <<"A", "B", "C">>

\* C5, as the specification states it: from clientOrder [A,B,C], active
\* client A and turnsCompleted 0, one advance makes B the active client, and
\* after two more A is the active client again, turnsCompleted is 0 and the
\* last-lap fields are cleared.
C5_ControlBackAtA ==
    /\ Advances(1) => activeClientID = "B"
    /\ Advances(3) => /\ activeClientID = "A"
                      /\ turnsCompleted = 0
                      /\ lastLapClient = NoClient
                      /\ lastLapTime = 0

\* C5, as the code has it: one advance makes B the active client, a second
\* makes C the active client, and the third, which completes the round, leaves
\* C the active client, stops the timer, sets turnsCompleted to 0 and clears
\* the last-lap fields; the three laps on record are A's, B's and C's.
C5_ControlStaysAtC ==
    /\ Advances(1) => activeClientID = "B" /\ turnsCompleted = 1
    /\ Advances(2) => activeClientID = "C" /\ turnsCompleted = 2
    /\ Advances(3) => /\ activeClientID = "C"
                      /\ turnsCompleted = 0
                      /\ lastLapClient = NoClient
                      /\ lastLapTime = 0
                      /\ ~isRunning
                      /\ [i \in 1..3 |-> lapHistory[i].client] = <<"A", "B", "C">>

\* The third advance has been carried out.
C5_Witness == Advances(3)

\* C6. lapHistory changes in two ways only: the step of an accepted "next"
\* that records the lap appends one entry, whose client is the sender (the
\* active client) and whose time is the elapsed time at that step, whatever
\* the number of clients; the step of an accepted "reset" empties it.  Every
\* such step of a "next" does append.
C6_HistoryAppendOrReset ==
    [][/\ lapHistory' # lapHistory =>
            \/ \E c \in Conns :
                /\ pc[c] = "next1" /\ pc'[c] = "next1_u"
                /\ clientID[c] = activeClientID
                /\ lapHistory' = Append(lapHistory,
                        [client |-> activeClientID,
                         time |-> IF isRunning THEN elapsed + (now - startTime) ELSE elapsed,
                         timeMs |-> Milliseconds(IF isRunning THEN elapsed + (now - startTime)
                                                 ELSE elapsed)])
            \/ \E c \in Conns :
                /\ pc[c] = "apply" /\ pc'[c] = "apply_u" /\ cmd[c] = "reset"
                /\ lapHistory' = <<>>
       /\ \A c \in Conns :
            pc[c] = "next1" /\ pc'[c] = "next1_u" => Len(lapHistory') = Len(lapHistory) + 1
       /\ \A c \in Conns :
            pc[c] = "apply" /\ pc'[c] = "apply_u" /\ cmd[c] = "reset" => lapHistory' = <<>>]_vars

\* The only client connected has advanced after the timer ran for a while, and
\* its lap is on record.
C6_Witness ==
    \E c \in Conns :
        /\ pc[c] = "next1_u"
        /\ Len(clientOrder) = 1
        /\ Len(lapHistory) = 1
        /\ lapHistory[1].timeMs > 0

\* C7. The step that removes the active client makes the first client of what
\* is left of clientOrder the active client, wherever the removed one stood,
\* and leaves no active client if nothing is left.
C7_ControlToFront ==
    [][\A c \in Conns :
        (pc[c] = "closing" /\ pc'[c] # "closing" /\ activeClientID = clientID[c])
            => /\ clientOrder' = SelectSeq(clientOrder, LAMBDA x : x # clientID[c])
               /\ activeClientID' = IF clientOrder' = <<>> THEN NoClient
                                    ELSE clientOrder'[1]]_vars

\* B was the active client of [A,B,C] and has been removed: A is active.
C7_Witness ==
    \E c \in Conns :
        /\ pc[c] = "xbc1"
        /\ clientID[c] = "B"
        /\ clientOrder = <<"A", "C">>
        /\ activeClientID = "A"

\* C8. The time a message reports is never negative: neither the time read by
\* a goroutine that is about to send, nor the time field of a message built
\* from it.
C8_TimeNeverNegative ==
    \A p \in Sampled :
        /\ smp[p].ms >= 0
        /\ p \in Conns => SendStateMessage(p).time >= 0
        /\ \A m \in BroadcastMessages(p) : m.time >= 0

\* A goroutine is about to report a positive time that the timer accumulated
\* before it was paused.
C8_Witness ==
    \E p \in Sampled :
        /\ smp[p].ms >= 1
        /\ elapsed > 0
        /\ ~isRunning

\* The timer fields are read for a message.
Sampling(p) ==
    /\ pc[p] \in {"ssc2", "bc2", "xbc2"}
    /\ pc'[p] \in {"ssc3", "bc2_u", "xbc2_u"}

\* C9, as the specification states it: a message for which the timer was
\* seen running reports no smaller time than the message before it, if that
\* one saw the timer running too and the timer has not been stopped since.
C9_TimeNeverDecreases ==
    [][\A p \in Procs : Sampling(p) /\ smp'[p].run => smp'[p].ms >= owed]_vars

\* C9, as the code has it: the same, if moreover no "next" has been accepted
\* since the earlier message.
C9_TimeNeverDecreasesWithinTurn ==
    [][\A p \in Procs : Sampling(p) /\ smp'[p].run => smp'[p].ms >= owedTurn]_vars

\* A message has reported a positive time, the timer has run on since and the
\* clock has advanced, and the timer fields are about to be read again.
C9_Witness ==
    /\ isRunning
    /\ owedTurn > 0
    /\ Milliseconds(Total(isRunning, elapsed)) > owedTurn
    /\ \E p \in Procs : pc[p] = "bc2" /\ stateMux = NoProc

\* C10. The step of an accepted "reset" leaves the timer stopped, elapsed 0,
\* the last-lap fields cleared, lapHistory empty and turnsCompleted 0, and
\* leaves clients, clientOrder and activeClientID as they were.
C10_ResetClears ==
    [][\A c \in Conns :
        (pc[c] = "apply" /\ pc'[c] = "apply_u" /\ cmd[c] = "reset")
            => /\ ~isRunning'
               /\ elapsed' = 0
               /\ lastLapTime' = 0
               /\ lastLapClient' = NoClient
               /\ lapHistory' = <<>>
               /\ turnsCompleted' = 0
               /\ UNCHANGED <<clients, clientOrder, activeClientID>>]_vars

\* B, made the active client of [A,B,C] by a "next" accepted after the clock
\* had advanced, has had its reset carried out: before it the timer ran, a lap
\* was on record and turnsCompleted was 1.
C10_Witness ==
    \E c \in Conns :
        /\ pc[c] = "apply_u"
        /\ cmd[c] = "reset"
        /\ clientID[c] = "B"
        /\ activeClientID = "B"
        /\ clientOrder = <<"A", "B", "C">>
        /\ startTime > 0

\* A command of the active client is carried out on the timer.
Applying(c, verb) == pc[c] = "apply" /\ pc'[c] = "apply_u" /\ cmd[c] = verb

\* C11. A start on a stopped timer keeps what has accumulated and makes the
\* timer run from the present; a pause on a running timer stops it and adds
\* the time since it was started; nothing but a command touches startTime or
\* elapsed.  So a start at t0 and a pause at t1, with no command between them,
\* leave a stopped timer with elapsed a + (t1 - t0).  A start on a running
\* timer and a pause on a stopped one change no field of the timer.
C11_StartThenPause ==
    [][/\ \A c \in Conns :
            /\ Applying(c, "start") /\ ~isRunning
                => isRunning' /\ startTime' = now /\ elapsed' = elapsed
            /\ Applying(c, "pause") /\ isRunning
                => ~isRunning' /\ elapsed' = elapsed + (now - startTime)
            /\ Applying(c, "start") /\ isRunning => UNCHANGED timerVars
            /\ Applying(c, "pause") /\ ~isRunning => UNCHANGED timerVars
       /\ <<startTime, elapsed, isRunning>>' # <<startTime, elapsed, isRunning>>
            => \E c \in Conns : /\ pc[c] \in {"apply", "next1", "next2w", "next3"}
                                /\ pc'[c] # pc[c]]_vars

\* A timer that had accumulated one tick was started when the clock stood at
\* one tick and has been paused at two: two ticks have accumulated.
C11_Witness ==
    \E c \in Conns :
        /\ pc[c] = "apply_u"
        /\ cmd[c] = "pause"
        /\ lapHistory = <<>>
        /\ startTime = ClockStep
        /\ now = 2 * ClockStep
        /\ elapsed = 2 * ClockStep
        /\ ~isRunning

\* The handler of connection c registers its client.
Joining(c) == pc[c] = "join" /\ pc'[c] = "join_u"

\* C12. The step that registers a new client puts its identifier at the end
\* of clientOrder; the client becomes the active one if clientOrder was empty,
\* and the active client stays who it was otherwise.
C12_JoinAppends ==
    [][\A c \in Conns : Joining(c) =>
        /\ clientOrder' = Append(clientOrder, clientID'[c])
        /\ <<clientID'[c], c>> \in clients'
        /\ clientOrder = <<>> => activeClientID' = clientID'[c]
        /\ clientOrder # <<>> => activeClientID' = activeClientID]_vars

\* A second client has been registered behind the first, which had advanced
\* alone and is still the active client.
C12_Witness ==
    \E c \in Conns :
        /\ pc[c] = "join_u"
        /\ Len(clientOrder) = 2
        /\ clientOrder[2] = clientID[c]
        /\ activeClientID = clientOrder[1]
        /\ Len(lapHistory) = 1

\* The connections whose client is registered: the handler has added it
\* (line 239) and has not yet removed it (line 274).
Registered ==
    {c \in Conns : pc[c] \notin {"idle", "join", "leave_u",
                                 "xbc1", "xbc1_u", "xbc2", "xbc2_u", "xbc3"}}

\* C13. In every state clientOrder holds no identifier twice and holds exactly
\* the identifiers of the registered clients, which differ from one another;
\* clientOrder changes only by an identifier that no registered client has
\* being put at its end, or by one identifier being taken out with the others
\* keeping their order: so the clients stand in the order in which they
\* connected, and an identifier is given out again only once the client that
\* had it has been removed.
C13_OrderOfArrival ==
    /\ [](/\ \A i, j \in DOMAIN clientOrder : i # j => clientOrder[i] # clientOrder[j]
          /\ Range(clientOrder) = IDs(clients)
          /\ clients = {<<clientID[c], c>> : c \in Registered}
          /\ \A c, d \in Registered : c # d => clientID[c] # clientID[d])
    /\ [][clientOrder' # clientOrder =>
            \/ \E c \in Conns :
                /\ Joining(c)
                /\ clientID'[c] \notin {clientID[d] : d \in Registered}
                /\ clientOrder' = Append(clientOrder, clientID'[c])
            \/ \E c \in Conns :
                /\ pc[c] = "closing" /\ pc'[c] # "closing"
                /\ clientOrder' = SelectSeq(clientOrder, LAMBDA x : x # clientID[c])]_vars

\* B, who had connected second of three, has left and a new connection has
\* been registered under the name B: it stands last.
C13_Witness ==
    \E c \in Conns :
        /\ pc[c] = "join_u"
        /\ clientID[c] = "B"
        /\ clientOrder = <<"A", "C", "B">>

\* Every handler is in its read loop or has none, and p's copy of the
\* clients is the session's.
Quiesced(p) ==
    /\ \A c \in Conns : pc[c] \in {"read", "idle"}
    /\ currentClients[p] = clients

\* C14. When a broadcast sends while no command and no change of the clients
\* is under way, every registered client's connection is handed exactly one
\* message, the messages name the session's active client and its clients,
\* any two of them are equal in every field but yourId, and each one's yourId
\* is the identifier of the client on the connection it is handed to.
C14_SnapshotsAgree ==
    \A p \in Procs : (pc[p] \in {"bc3", "xbc3"} /\ Quiesced(p)) =>
        /\ \A c \in Registered :
            Cardinality({d \in BroadcastDeliveries(p) : d[1] = c}) = 1
        /\ \A d \in BroadcastDeliveries(p) :
            /\ d[1] \in Registered
            /\ d[2].yourId = clientID[d[1]]
            /\ d[2].activeClient = activeClientID
            /\ d[2].clients = Range(clientOrder)
        /\ \A d, e \in BroadcastDeliveries(p) :
            [e[2] EXCEPT !.yourId = d[2].yourId] = d[2]

\* A broadcast is about to send to three clients, after a lap, with B active.
C14_Witness ==
    \E p \in Procs :
        /\ pc[p] = "bc3"
        /\ Quiesced(p)
        /\ Cardinality(BroadcastDeliveries(p)) = 3
        /\ activeClientID = "B"
        /\ Len(smp[p].history) = 1

\* C15. An accepted "next" makes the timer run from the present with elapsed
\* 0, and nothing changes that before its rotation step; if then there is
\* more than one client and turnsCompleted, which the "next" has incremented,
\* is below their number, the rotation step makes the client that follows the
\* active one in clientOrder the active client, the first following the last,
\* and leaves the timer as it is: running, elapsed 0, started at the "next".
C15_ControlToNext ==
    [][\A c \in Conns :
        /\ (pc[c] = "next1" /\ pc'[c] = "next1_u")
            => /\ isRunning' /\ elapsed' = 0 /\ startTime' = now
               /\ turnsCompleted' = turnsCompleted + 1
        /\ pc[c] \in {"next1_u", "next2"}
            => /\ isRunning /\ elapsed = 0
               /\ UNCHANGED <<isRunning, elapsed, startTime, turnsCompleted>>
        /\ (/\ pc[c] = "next2" /\ pc'[c] # "next2"
            /\ Len(clientOrder) > 1 /\ turnsCompleted < Len(clientOrder))
            => /\ pc'[c] = "next_u"
               /\ \E i \in DOMAIN clientOrder :
                    /\ clientOrder[i] = activeClientID
                    /\ activeClientID' = IF i = Len(clientOrder) THEN clientOrder[1]
                                         ELSE clientOrder[i + 1]
               /\ UNCHANGED <<clientOrder, timerVars>>]_vars

\* The second of two clients, active since the round before was completed,
\* has advanced: control is with the first again.
C15_Witness ==
    \E c \in Conns :
        /\ pc[c] = "next_u"
        /\ Len(clientOrder) = 2
        /\ clientID[c] = clientOrder[2]
        /\ activeClientID = clientOrder[1]
        /\ turnsCompleted = 1
        /\ isRunning /\ elapsed = 0 /\ startTime = now

\* C16. If at the rotation step of an accepted "next" there is more than one
\* client and turnsCompleted, which the "next" has incremented, has reached
\* their number, the round is closed: the timer ends stopped with elapsed 0,
\* the last-lap fields are cleared and turnsCompleted is 0, while the active
\* client, clientOrder and lapHistory stay as they were.
C16_RoundClosed ==
    [][\A c \in Conns :
        /\ (/\ pc[c] = "next2" /\ pc'[c] # "next2"
            /\ Len(clientOrder) > 1 /\ turnsCompleted >= Len(clientOrder))
            => /\ pc'[c] = "next2w"
               /\ UNCHANGED <<activeClientID, clientOrder, lapHistory>>
        /\ pc[c] = "next2w"
            => /\ UNCHANGED <<activeClientID, clientOrder, lapHistory>>
               /\ pc'[c] # "next2w"
                    => /\ pc'[c] = "next_u"
                       /\ ~isRunning'
                       /\ elapsed' = 0
                       /\ lastLapTime' = 0
                       /\ lastLapClient' = NoClient
                       /\ turnsCompleted' = 0]_vars

\* C, the last of [A,B,C], has advanced after A and B: the round is closed
\* and C is still the active client.
C16_Witness ==
    \E c \in Conns :
        /\ pc[c] = "next_u"
        /\ clientID[c] = "C"
        /\ activeClientID = "C"
        /\ clientOrder = <<"A", "B", "C">>
        /\ Len(lapHistory) = 3
        /\ ~isRunning
        /\ turnsCompleted = 0

\* C17. If at the rotation step of an accepted "next" its sender is the only
\* client, the sender stays the active client and the advance ends with the
\* timer running from the present with elapsed 0, and with turnsCompleted,
\* lastLapClient and lastLapTime cleared.
C17_AloneRestarts ==
    [][\A c \in Conns :
        /\ (pc[c] = "next2" /\ pc'[c] # "next2" /\ Len(clientOrder) = 1)
            => /\ pc'[c] = "next3"
               /\ UNCHANGED <<activeClientID, clientOrder>>
        /\ pc[c] = "next3"
            => /\ activeClientID = clientID[c]
               /\ UNCHANGED <<activeClientID, clientOrder>>
               /\ pc'[c] # "next3"
                    => /\ pc'[c] = "next3_u"
                       /\ isRunning'
                       /\ elapsed' = 0
                       /\ startTime' = now
                       /\ turnsCompleted' = 0
                       /\ lastLapClient' = NoClient
                       /\ lastLapTime' = 0]_vars

\* The only client has advanced a timer that had accumulated a tick: its lap
\* is on record, and the timer runs for it again from the present.
C17_Witness ==
    \E c \in Conns :
        /\ pc[c] = "next3_u"
        /\ clientOrder = <<clientID[c]>>
        /\ activeClientID = clientID[c]
        /\ Len(lapHistory) = 1
        /\ lapHistory[1].time = ClockStep
        /\ isRunning /\ elapsed = 0 /\ startTime = now
        /\ turnsCompleted = 0 /\ lastLapClient = NoClient /\ lastLapTime = 0

\* Where a handler is while it connects (lines 222-254) and while it
\* disconnects (lines 273-300).
ConnectPcs == {"idle", "join", "join_u", "ssc1", "ssc1_u", "ssc2", "ssc3", "ssc4",
               "bc1", "bc1_u", "bc2", "bc2_u", "bc3"}
DisconnectPcs == {"closing", "leave_u", "xbc1", "xbc1_u", "xbc2", "xbc2_u", "xbc3"}

\* C18. The step that removes a client other than the active one leaves the
\* active client who it was and takes just that client out of clientOrder,
\* the others keeping their order; and no step of a handler that is
\* connecting or disconnecting, nor the failed read before it, changes a
\* field of the timer, lapHistory or turnsCompleted.
C18_RosterChangesOnly ==
    [][\A c \in Conns :
        /\ (pc[c] = "closing" /\ pc'[c] # "closing" /\ activeClientID # clientID[c])
            => /\ pc'[c] = "leave_u"
               /\ activeClientID' = activeClientID
               /\ clientOrder' = SelectSeq(clientOrder, LAMBDA x : x # clientID[c])
               /\ clients' = clients \ {<<clientID[c], c>>}
        /\ (pc'[c] # pc[c] /\ (pc[c] \in ConnectPcs \cup DisconnectPcs \/ pc'[c] = "closing"))
            => UNCHANGED <<timerVars, turnsCompleted>>]_vars

\* A, first of [A,B,C], has been removed while B, made active by A's "next",
\* has its turn: B is still the active client of [B,C], the timer runs.
C18_Witness ==
    \E c \in Conns :
        /\ pc[c] = "leave_u"
        /\ clientID[c] = "A"
        /\ clientOrder = <<"B", "C">>
        /\ activeClientID = "B"
        /\ isRunning
        /\ turnsCompleted = 1

\* C19. A handler leaves its read loop only for a frame of type "command",
\* which it hands to handleCommand, or because the read failed: any other
\* frame leaves it reading, and changes nothing.  A command that is none of
\* start, pause, reset and next is taken, if its sender is the active client,
\* through handleCommand back to the read loop, and no step on the way changes
\* a field of the session or of the timer.
C19_OtherFramesIgnored ==
    [][\A c \in Conns :
        /\ (pc[c] = "read" /\ pc'[c] # "read")
            => /\ \/ pc'[c] = "auth" /\ cmd'[c] \in Commands
                  \/ pc'[c] = "closing"
               /\ UNCHANGED <<sessionVars, timerVars>>
        /\ ~(pc[c] = "read" /\ pc'[c] = "read" /\ cmd'[c] # cmd[c])
        /\ (cmd[c] = "bogus" /\ pc'[c] # pc[c])
            => /\ <<pc[c], pc'[c]>> \in {<<"auth", "auth_ok_u">>, <<"auth", "auth_rej_u">>,
                                        <<"auth_rej_u", "read">>, <<"auth_ok_u", "apply">>,
                                        <<"apply", "apply_u">>, <<"apply_u", "read">>}
               /\ UNCHANGED <<sessionVars, timerVars>>]_vars

\* The active client's unknown command has been carried out while the timer
\* runs and a lap is on record.
C19_Witness ==
    \E c \in Conns :
        /\ pc[c] = "apply_u"
        /\ cmd[c] = "bogus"
        /\ clientID[c] = activeClientID
        /\ isRunning
        /\ Len(lapHistory) = 1
        /\ turnsCompleted = 1

\* Where a goroutine is when its next step is clientsMux.Lock().
LocksClientsMux == {"join", "ssc1", "bc1", "xbc1", "tick", "auth", "next2", "closing"}

\* C20. No goroutine that holds stateMux is about to lock clientsMux, and no
\* step locks clientsMux for a goroutine that holds stateMux: whoever holds
\* both has locked clientsMux first.  In particular the handler of a "next"
\* has released stateMux when it comes to lock clientsMux for the rotation.
C20_LockOrder ==
    /\ [](\A p \in Procs : pc[p] \in LocksClientsMux => stateMux # p)
    /\ [][\A p \in Procs :
            (clientsMux' = p /\ clientsMux # p) => (stateMux # p /\ stateMux' # p)]_vars

\* The handler of the only client's "next" holds both mutexes.
C20_Witness ==
    \E c \in Conns :
        /\ pc[c] = "next3_u"
        /\ clientsMux = c
        /\ stateMux = c

\* The process that takes the step writes a membership field (clients,
\* clientOrder, activeClientID, turnsCompleted).
WritesMembership == sessionVars' # sessionVars

\* The process that takes the step writes a timer field (isRunning, startTime,
\* elapsed, lastLapTime, lastLapClient, lapHistory).
WritesTimer == timerVars' # timerVars

\* The step is one in which process p reads s.activeClientID to build a
\* message (line 443 in broadcastState, line 503 in sendStateToClient).
ReadsActiveClient(p) == pc[p] \in {"bc3", "xbc3", "ssc3"} /\ pc'[p] # pc[p]

\* C21. Each field is accessed only under its own mutex: a step that writes
\* clients, clientOrder, activeClientID or turnsCompleted is taken by a
\* goroutine that holds clientsMux, a step that writes isRunning, startTime,
\* elapsed, lastLapTime, lastLapClient or lapHistory is taken by a goroutine
\* that holds stateMux, and a goroutine that reads activeClientID for a
\* message holds clientsMux.
C21_OwnLockOnly ==
    [][/\ WritesMembership => \E p \in Procs : pc'[p] # pc[p] /\ clientsMux' = p
       /\ WritesTimer => \E p \in Procs : pc'[p] # pc[p] /\ stateMux' = p
       /\ \A p \in Procs : ReadsActiveClient(p) => clientsMux = p]_vars

\* C22. Neither a command handler nor the ticker waits for a slow consumer:
\* even if a WriteMessage to some participant never returns, a command that
\* has passed the authorization is carried out and its handler reads on, and
\* a tick that found clients completes its broadcast.
C22_NoWaitOnSlowConsumer ==
    /\ \A c \in Conns : (pc[c] \in {"apply", "next1"}) ~> (pc[c] = "read")
    /\ (pc[Ticker] = "tick_go_u") ~> (pc[Ticker] = "tick")

\* Process p enters broadcastState in this step: by the call of line 254 or
\* 292, or as the goroutine of line 379 or 407.
EntersBroadcast(p) == pc[p] \notin {"bc1", "xbc1"} /\ pc'[p] \in {"bc1", "xbc1"}

\* C23. Every change triggers a broadcast of its own: the step that applies
\* start, pause or reset starts a goroutine in broadcastState, the handler of
\* an advance starts one as soon as it has released clientsMux, a handler
\* that has registered its client calls broadcastState right after the
\* on-connect send, and a handler that has removed its client, active or
\* not, calls broadcastState before it does anything else.
C23_ChangeTriggersBroadcast ==
    [][\A c \in Conns :
        /\ (pc[c] \in {"apply", "next_go"} /\ pc'[c] # pc[c])
            => \E g \in Spawned : EntersBroadcast(g)
        /\ (pc[c] = "ssc4" /\ pc'[c] # pc[c]) => EntersBroadcast(c)
        /\ (pc[c] = "closing" /\ pc'[c] # pc[c]) => EntersBroadcast(c)]_vars

\* The handler has passed the comparison of line 305 and has a write of its
\* command to the session still ahead (the last one is that of line 342, 355,
\* 374 or of the switch of lines 388-406).
CommandPending(c) ==
    pc[c] \in {"auth_ok_u", "next1", "next1_u", "next2", "next2w", "next3", "apply"}

\* C24. From the comparison of line 305 to its command's last write the
\* sender stays the active client; so at most one handler is between the two
\* at a time, and a handler about to rotate finds activeClientID in
\* clientOrder (the branch of lines 357-363 is never taken).
C24_SenderKeepsControl ==
    /\ \A c \in Conns : CommandPending(c) => clientID[c] = activeClientID
    /\ Cardinality({c \in Conns : CommandPending(c)}) <= 1
    /\ \A c \in Conns : pc[c] = "next2" => IndexOf(clientOrder, activeClientID) # 0

\* A handler has recorded its lap and is about to rotate while another
\* participant's handler, whose read failed meanwhile, has just removed its
\* client and holds clientsMux.
C24_Witness ==
    \E c, d \in Conns :
        /\ c # d
        /\ pc[c] = "next2"
        /\ pc[d] = "leave_u"
        /\ Len(clientOrder) > 1

\* Message m names as active client nobody while it lists no clients, or one
\* of the clients it lists.
ControlConsistent(m) ==
    \/ m.activeClient = NoClient /\ m.clients = {}
    \/ m.activeClient \in m.clients

\* C25. Every message a goroutine is about to send is consistent about
\* control: those broadcastState builds at lines 437-452 and the one
\* sendStateToClient builds at lines 497-506.
C25_SnapshotControlConsistent ==
    /\ \A p \in Procs : pc[p] \in {"bc3", "xbc3"}
        => \A m \in BroadcastMessages(p) : ControlConsistent(m)
    /\ \A c \in Conns : pc[c] = "ssc3" => ControlConsistent(SendStateMessage(c))

\* The calls of WriteMessage in progress on connection c: those of the writer
\* goroutines of line 461 and that of the handler's sendStateToClient (line 513).
Sending(c) == writers[c] + (IF pc[c] = "ssc4" THEN 1 ELSE 0)

\* C26. At most one WriteMessage is in progress on a connection at any time.
C26_OneSendPerConnection == \A c \in Conns : Sending(c) <= 1

\* The handler of c takes this step from one of the places in from.
StepsFrom(c, from) == pc[c] \in from /\ pc'[c] # pc[c]

\* The step is the last write of an advance of c: the rotation of lines
\* 345-364, the closing of the round (338-342) or the restart for a single
\* client (367-375).
AdvanceFinishes(c) ==
    /\ pc[c] \in {"next2", "next2w", "next3"}
    /\ pc'[c] \in {"next_u", "next3_u"}

\* C27. turnsCompleted is never negative; when an advance makes its last
\* write, turnsCompleted is below the length of clientOrder that its rotation
\* step sees; turnsCompleted is changed only by the steps of an advance and
\* by reset, which sets it to 0; and it comes to reach the length of
\* clientOrder only when a client is removed, or for the time between an
\* advance's count (line 323) and its rotation step.
C27_TurnsBelowRoster ==
    [][/\ turnsCompleted >= 0 /\ turnsCompleted' >= 0
       /\ \A c \in Conns : AdvanceFinishes(c) => turnsCompleted' < Len(clientOrder')
       /\ turnsCompleted' # turnsCompleted
            => \/ \E c \in Conns : StepsFrom(c, {"next1", "next2w", "next3"})
               \/ /\ turnsCompleted' = 0
                  /\ \E c \in Conns : StepsFrom(c, {"apply"}) /\ cmd[c] = "reset"
       /\ (turnsCompleted < Len(clientOrder) /\ turnsCompleted' >= Len(clientOrder'))
            => \/ Len(clientOrder') < Len(clientOrder)
               \/ \E c \in Conns : StepsFrom(c, {"next1"})]_vars

\* Two advances have finished among three clients and one of the clients has
\* disconnected since: turnsCompleted equals the length of clientOrder while
\* no advance is in progress.
C27_Witness ==
    /\ turnsCompleted > 0
    /\ turnsCompleted >= Len(clientOrder)
    /\ Len(lapHistory) = 2
    /\ \A c \in Conns : pc[c] \in {"read", "idle"}

====
